---- MODULE Spec2Model ----
(***************************************************************************)
(* A model of vantjs: the realtime data container (WeatherDataContainer),  *)
(* its fetch cycles, and the serial device interface it drives.            *)
(*                                                                         *)
(* JavaScript runs each callback to completion; an action of this module   *)
(* is the code that runs between two suspension points (await / then /     *)
(* timer / I/O callback), microtask continuations included.                *)
(***************************************************************************)
EXTENDS Integers, Sequences, FiniteSets, TLC

\* ------------------------------------------------------------------ bounds
MaxCalls == 1      \* open() and close() calls of the user and ticks of the timers
MaxOps == 1        \* direct calls of device operations
MaxParses == 2     \* calls of parse() of one BinaryParser

\* ------------------------------------------------------- program constants
DoNothing == 0
WaitUntilOpen == 1
WaitForFirstUpdate == 2
WaitForFirstValidUpdate == 3
WakeRetryLimit == 3   \* do { ... } while (!succeeded && tries <= 3)

OnCreate == {DoNothing, WaitUntilOpen, WaitForFirstUpdate, WaitForFirstValidUpdate}

Opens == 1..(MaxCalls + 1) \* open() call o creates device o and interval timer o;
                           \* call 1 is the one initialize() makes
Devices == Opens
Closes == 1..MaxCalls
Cycles == 1..(MaxCalls + 1) \* one first cycle per open() call, one cycle per tick
Ops == 1..MaxOps
Waits == 1..MaxCalls

VARIABLES
    onCreate,                  \* settings.onCreate
    created,                   \* the promise of initialize() has resolved
    currentDevice,             \* 0 is null
    currentUpdateInterval,     \* 0 is null
    currentReconnectTimeout,   \* 0 is null
    liveIntervals,             \* interval timers set and not cleared
    opn,                       \* open() calls
    cls,                       \* close() calls of the user
    dev,                       \* device instances
    cyc,                       \* update() invocations
    nCycles,                   \* update() invocations so far
    emitted,                   \* the events the last step emitted, in order
    idle,                      \* a close() call completed and no open() call was made since
    waits,                     \* waitForUpdate() and waitForValidUpdate() calls of the user
    port,                      \* VantageInterface.port: "open" or "closed"
    op,                        \* calls of the operations of a VantageInterface
    wake,                      \* the call of wakeUp() of a VantageInterface
    rich,                      \* a call of getRichRealtimeData(): its two packages and its record
    parser                     \* a BinaryParser: its structure, the buffers parsed and the results

containerVars == <<onCreate, created, currentDevice, currentUpdateInterval,
                   currentReconnectTimeout, liveIntervals, opn, cls, dev, cyc, nCycles,
                   emitted, idle, waits>>
interfaceVars == <<port, op, wake>>
pureVars == <<rich, parser>>
vars == <<containerVars, interfaceVars, pureVars>>

NoOpen == [pc |-> "idle", cl |-> 0]
NoClose == [pc |-> "idle", cl |-> 0, ev |-> FALSE]
NoDevice == [st |-> "none", port |-> "closed", out |-> 0, listening |-> FALSE]
NoCycle == [pc |-> "none", dev |-> 0, src |-> "none", tries |-> 0, err |-> "none",
            upd |-> 0, val |-> 0]

None == <<-1>>     \* no buffer

\* an operation not called: its promise, its error, the chunks its listeners got,
\* the arguments of its validateCRC(...) and the argument of its parse(...)
NoOp == [kind |-> "none", pc |-> "idle", settled |-> "pending", err |-> "none",
         chunks |-> << >>, crcOver |-> None, crcWith |-> -1, parsed |-> None]

\* wakeUp() not called: tries of the loop, writes of "\n", responses read
NoWake == [pc |-> "idle", tries |-> 0, writes |-> 0, replies |-> << >>]

\* getRichRealtimeData() not called, parse() not called
NoRich == [pc |-> "idle", loop1 |-> << >>, loop2 |-> << >>, record |-> << >>,
           err |-> "none"]
NoParser == [pc |-> "idle", struct |-> << >>, buffer |-> << >>, given |-> 0, offset |-> 0,
             calls |-> 0, result |-> << >>]

\* waitForUpdate() or waitForValidUpdate() not called: the event it listens to, its
\* promise, the value it resolved with, and whether its listener was attached after
\* a listener of the user that throws
NoWait == [kind |-> "none", st |-> "idle", val |-> "none", late |-> FALSE]

Ev(e, i, x) == [ev |-> e, id |-> i, err |-> x]   \* id: the cycle, or the open() call

ProgramInit ==
    /\ onCreate \in OnCreate
    /\ created = FALSE
    /\ currentDevice = 0
    /\ currentUpdateInterval = 0
    /\ currentReconnectTimeout = 0
    /\ liveIntervals = {}
    /\ opn = [o \in Opens |-> NoOpen]
    /\ cls = [k \in Closes |-> NoClose]
    /\ dev = [d \in Devices |-> NoDevice]
    /\ cyc = [c \in Cycles |-> NoCycle]
    /\ nCycles = 0
    /\ emitted = << >>
    /\ idle = FALSE
    /\ waits = [w \in Waits |-> NoWait]
    /\ port = "open"
    /\ op = [i \in Ops |-> NoOp]
    /\ wake = NoWake

Init == ProgramInit /\ rich = NoRich /\ parser = NoParser

\* the calls of the user and the ticks of the timers so far
Calls ==
    Cardinality({o \in Opens : o > 1 /\ opn[o].pc # "idle"})
        + Cardinality({k \in Closes : cls[k].pc # "idle"})
        + Cardinality({c \in Cycles : cyc[c].src = "timer"})
        + Cardinality({w \in Waits : waits[w].st # "idle"})

\* ------------------------------------------------------------ startup gate
HasEvent(evs, e) == \E i \in DOMAIN evs : evs[i].ev = e

\* a waitForUpdate that listens to "valid-update" instead
waitForUpdateOnValidUpdate(evs) == HasEvent(evs, "valid-update")

\* waitForUpdate: once("update", ...) resolves on the next update event
waitForUpdate(evs) == HasEvent(evs, "update")

\* a waitForValidUpdate that listens to "update" instead
waitForValidUpdateOnUpdate(evs) == HasEvent(evs, "update")

\* waitForValidUpdate: once("valid-update", ...) resolves on the next valid-update
waitForValidUpdate(evs) == HasEvent(evs, "valid-update")

\* initialize: what the promise of initialize() awaits after container.open()
initializeResolves(evs) ==
    \/ onCreate = DoNothing
    \/ onCreate = WaitUntilOpen /\ \E i \in DOMAIN evs : evs[i].ev = "open" /\ evs[i].id = 1
    \/ onCreate = WaitForFirstUpdate /\ waitForUpdate(evs)
    \/ onCreate = WaitForFirstValidUpdate /\ waitForValidUpdate(evs)

\* emit(...) number i of evs ended in the exception of a listener of the user: the
\* catch block of update() emits the exception next
Interrupted(evs, i) == i < Len(evs) /\ evs[i + 1].err = "listener"

\* the emit(...) calls of evs that call the once-listener of w: emit calls the
\* listeners of the event in the order they were attached, up to one that throws
Delivered(w, evs) ==
    {i \in DOMAIN evs : /\ evs[i].ev = waits[w].kind
                        /\ waits[w].late => ~Interrupted(evs, i)}

\* lines 132 and 140: once(...) detaches the listener at its first call
firstDelivered(w, evs) == CHOOSE i \in Delivered(w, evs) : \A j \in Delivered(w, evs) : i <= j

\* lines 130-144: the listener of a pending call resolves its promise with the
\* argument of the event
resolveWaits(evs) ==
    [w \in Waits |->
        IF waits[w].st = "pending" /\ Delivered(w, evs) # {}
        THEN [waits[w] EXCEPT !.st = "resolved", !.val = evs[firstDelivered(w, evs)].err]
        ELSE waits[w]]

\* emit(...) of the events evs, in order, with the listeners of initialize() and of
\* the pending waitForUpdate() and waitForValidUpdate() calls attached
Emit(evs) ==
    /\ emitted' = evs
    /\ created' = (created \/ initializeResolves(evs))
    /\ waits' = resolveWaits(evs)

Silent == emitted' = << >> /\ UNCHANGED <<created, waits>>

\* waitForUpdate() and waitForValidUpdate() called by the user, lines 130-144
WaitCall(w, kind, late) ==
    /\ Calls < MaxCalls
    /\ created
    /\ waits[w].st = "idle"
    /\ w > 1 => waits[w - 1].st # "idle"
    /\ waits' = [waits EXCEPT ![w] = [kind |-> kind, st |-> "pending", val |-> "none",
                                      late |-> late]]
    /\ emitted' = << >>
    /\ UNCHANGED <<pureVars, interfaceVars, onCreate, created, currentDevice,
                   currentUpdateInterval, currentReconnectTimeout, liveIntervals, opn, cls,
                   dev, cyc, nCycles, idle>>

\* ------------------------------------------------------------------ close
\* close(), lines 90-98: the timers are cleared synchronously
ClearTimers ==
    /\ liveIntervals' = liveIntervals \ {currentUpdateInterval}
    /\ currentUpdateInterval' = 0
    /\ currentReconnectTimeout' = 0

\* device.close(): the transport of d is closed
Closed(d) == [dev[d] EXCEPT !.port = "closed", !.st = "closed"]

\* close(), lines 101-105: device.close() resolved, the then-callback runs
CloseThen(d) ==
    /\ dev' = [dev EXCEPT ![d] = Closed(d)]
    /\ currentDevice' = 0
    /\ Emit(<<Ev("close", 0, "none")>>)

\* a close event reaches the close() calls that are waiting
CloseEventSeen(me) ==
    [k \in Closes |-> IF cls[k].pc = "closing"
                      THEN [cls[k] EXCEPT !.ev = TRUE, !.pc = IF k = me THEN "done" ELSE @]
                      ELSE cls[k]]

\* close() called by the user (who holds the container once initialize() resolved)
CloseCall(k) ==
    /\ Calls < MaxCalls
    /\ created
    /\ cls[k].pc = "idle"
    /\ \A j \in Closes : j < k => cls[j].pc # "idle"
    /\ ClearTimers
    /\ IF currentDevice # 0
       THEN /\ cls' = [cls EXCEPT ![k] = [pc |-> "closing", cl |-> currentDevice, ev |-> FALSE]]
            /\ UNCHANGED <<currentDevice, idle>>
       ELSE /\ cls' = [cls EXCEPT ![k] = [pc |-> "done", cl |-> 0, ev |-> FALSE]]
            /\ currentDevice' = 0
            /\ idle' = TRUE
    /\ Silent
    /\ UNCHANGED <<pureVars, interfaceVars, onCreate, opn, dev, cyc, nCycles>>

CloseDone(k) ==
    /\ cls[k].pc = "closing"
    /\ CloseThen(cls[k].cl)
    /\ cls' = CloseEventSeen(k)
    /\ idle' = TRUE
    /\ UNCHANGED <<pureVars, interfaceVars, onCreate, currentUpdateInterval, currentReconnectTimeout,
                   liveIntervals, opn, cyc, nCycles>>

\* ------------------------------------------------------------------- open
\* open(), lines 116-117 and setupInterface, lines 149-152: the then-callback of
\* this.close() constructs the device and awaits its creation
Constructed(o) == [dev[o] EXCEPT !.st = "new"]

\* open(), lines 114-115: this.close() is called synchronously; with no device it
\* resolves at once and the then-callback follows before any other task
OpenBegin(o) ==
    /\ opn[o].pc = "idle"
    /\ ClearTimers
    /\ IF currentDevice # 0
       THEN /\ opn' = [opn EXCEPT ![o] = [pc |-> "closing", cl |-> currentDevice]]
            /\ UNCHANGED <<currentDevice, dev>>
       ELSE /\ opn' = [opn EXCEPT ![o] = [pc |-> "creating", cl |-> 0]]
            /\ currentDevice' = 0
            /\ dev' = [dev EXCEPT ![o] = Constructed(o)]
    /\ idle' = FALSE
    /\ emitted' = << >>
    /\ UNCHANGED <<pureVars, interfaceVars, onCreate, cls, cyc, nCycles, waits>>

\* initialize(), lines 68-84: container.open() and the gate chosen by onCreate
initialize ==
    /\ OpenBegin(1)
    /\ created' = initializeResolves(<< >>)

\* open() called by the user
OpenCall(o) ==
    /\ Calls < MaxCalls
    /\ created
    /\ o > 1
    /\ opn[o - 1].pc # "idle"
    /\ OpenBegin(o)
    /\ UNCHANGED created

\* the close() inside open() resolves after device.close(); the then-callback of
\* open() follows
OpenCloseDone(o) ==
    /\ opn[o].pc = "closing"
    /\ currentDevice' = 0
    /\ dev' = [dev EXCEPT ![opn[o].cl] = Closed(opn[o].cl), ![o] = Constructed(o)]
    /\ Emit(<<Ev("close", 0, "none")>>)
    /\ opn' = [opn EXCEPT ![o].pc = "creating"]
    /\ cls' = CloseEventSeen(0)
    /\ UNCHANGED <<pureVars, interfaceVars, onCreate, currentUpdateInterval, currentReconnectTimeout,
                   liveIntervals, cyc, nCycles, idle>>

\* ------------------------------------------------------------ fetch cycle
\* update(), line 179: a new invocation runs up to its first await, device.open()
StartCycle(d, src) ==
    /\ nCycles' = nCycles + 1
    /\ cyc' = [cyc EXCEPT ![nCycles + 1] = [NoCycle EXCEPT !.pc = "open", !.dev = d, !.src = src]]

\* VantInterface.create with the default OnInterfaceCreate.OpenAndWakeUp
performOnCreateAction(o, ok) ==
    IF ok THEN [dev[o] EXCEPT !.st = "live", !.port = "open"]
          ELSE [dev[o] EXCEPT !.st = "failed"]

\* setupInterface, line 152, then open(), lines 119-125, and startUpdateCycle
OpenCreateDone(o, ok) ==
    /\ opn[o].pc = "creating"
    /\ dev' = [dev EXCEPT ![o] = [performOnCreateAction(o, ok) EXCEPT !.listening = ok]]
    /\ IF ok
       THEN /\ currentDevice' = o
            /\ StartCycle(o, "first")
            /\ liveIntervals' = liveIntervals \cup {o}
            /\ currentUpdateInterval' = o
            /\ opn' = [opn EXCEPT ![o].pc = "waitOpen"]
       ELSE /\ opn' = [opn EXCEPT ![o].pc = "failed"]
            /\ UNCHANGED <<currentDevice, cyc, nCycles, liveIntervals, currentUpdateInterval>>
    /\ Silent
    /\ UNCHANGED <<pureVars, interfaceVars, onCreate, currentReconnectTimeout, cls, idle>>

\* setInterval(update, ...): the timer fires whatever the running cycles do
TimerFire(t) ==
    /\ Calls < MaxCalls
    /\ t \in liveIntervals
    /\ StartCycle(t, "timer")
    /\ Silent
    /\ UNCHANGED <<pureVars, interfaceVars, onCreate, currentDevice, currentUpdateInterval,
                   currentReconnectTimeout, liveIntervals, opn, cls, dev, idle>>

\* update(), lines 188-191: the events of a cycle whose fetch succeeded; thr is the
\* event whose listener throws out of emit() into the catch block
UpdateSucceeded(c, thr) ==
    CASE thr = "none" -> <<Ev("update", c, "none"), Ev("valid-update", c, "none")>>
      [] thr = "update" -> <<Ev("update", c, "none"), Ev("update", c, "listener")>>
      [] thr = "valid-update" -> <<Ev("update", c, "none"), Ev("valid-update", c, "none"),
                                   Ev("update", c, "listener")>>

\* a catch block that emits valid-update after update(err)
UpdateFailedThenValid(c, err) == <<Ev("update", c, err), Ev("valid-update", c, "none")>>

\* update(), lines 190-191: the events of a cycle that threw err
UpdateFailed(c, err) == <<Ev("update", c, err)>>

Count(evs, e) == Cardinality({i \in DOMAIN evs : evs[i].ev = e})

\* the cycle c ends emitting evs
CycleEnds(c, err, evs) ==
    /\ cyc' = [cyc EXCEPT ![c].pc = "done", ![c].err = err, ![c].tries = 0,
                          ![c].upd = Count(evs, "update"),
                          ![c].val = Count(evs, "valid-update")]
    /\ Emit(evs)

\* await device.open() returns or throws (a port already open stays open);
\* device.wakeUp() is called in the same continuation
CycleOpenDone(c, ok) ==
    LET d == cyc[c].dev IN
    /\ cyc[c].pc = "open"
    /\ dev[d].port = "open" => ok
    /\ IF ok
       THEN /\ cyc' = [cyc EXCEPT ![c].pc = "wakeWait"]
            /\ dev' = [dev EXCEPT ![d].port = "open", ![d].out = dev[d].out + 1,
                                  ![d].listening = (dev[d].listening /\ dev[d].port = "open")]
            /\ IF dev[d].port = "closed" /\ dev[d].listening
               THEN /\ Emit(<<Ev("open", d, "none")>>)
                    /\ opn' = [opn EXCEPT ![d].pc = "resolved"]
               ELSE Silent /\ UNCHANGED opn
       ELSE /\ cyc' = [cyc EXCEPT ![c].pc = "connErr", ![c].err = "open"]
            /\ Silent
            /\ UNCHANGED <<dev, opn>>
    /\ UNCHANGED <<pureVars, interfaceVars, onCreate, currentDevice, currentUpdateInterval,
                   currentReconnectTimeout, liveIntervals, cls, nCycles, idle>>

\* wakeUp(), lines 687-704: the readable event of an attempt, the reply is "\n\r"
\* (good) or not. A failed attempt is followed by the next write while tries <= 3;
\* on success onUpdate(device) is called in the same continuation and writes its
\* command
CycleWakeReply(c, good) ==
    LET d == cyc[c].dev IN
    /\ cyc[c].pc = "wakeWait"
    /\ dev[d].port = "open"
    /\ IF good
       THEN /\ cyc' = [cyc EXCEPT ![c].pc = "fetchWait", ![c].tries = 0]
            /\ UNCHANGED dev
       ELSE IF cyc[c].tries + 1 <= WakeRetryLimit
            THEN /\ cyc' = [cyc EXCEPT ![c].tries = cyc[c].tries + 1]
                 /\ UNCHANGED dev
            ELSE /\ cyc' = [cyc EXCEPT ![c].pc = "connErr", ![c].tries = 0, ![c].err = "wake"]
                 /\ dev' = [dev EXCEPT ![d].out = dev[d].out - 1]
    /\ Silent
    /\ UNCHANGED <<pureVars, interfaceVars, onCreate, currentDevice, currentUpdateInterval,
                   currentReconnectTimeout, liveIntervals, opn, cls, nCycles, idle>>

\* onConnectionError(): the variant's hook closes the transport
onConnectionError(d) == [dev EXCEPT ![d].port = "closed"]

\* update(), lines 181-184 and 190-191
CycleConnectionError(c) ==
    /\ cyc[c].pc = "connErr"
    /\ dev' = onConnectionError(cyc[c].dev)
    /\ CycleEnds(c, cyc[c].err, UpdateFailed(c, cyc[c].err))
    /\ UNCHANGED <<pureVars, interfaceVars, onCreate, currentDevice, currentUpdateInterval,
                   currentReconnectTimeout, liveIntervals, opn, cls, nCycles, idle>>

\* onUpdate(device) returns or throws; update(), lines 188-191
CycleFetchReply(c, ok, thr) ==
    LET d == cyc[c].dev IN
    /\ cyc[c].pc = "fetchWait"
    /\ dev[d].port = "open"
    /\ thr # "none" => ok /\ created
    /\ dev' = [dev EXCEPT ![d].out = dev[d].out - 1]
    /\ IF ok
       THEN CycleEnds(c, "none", UpdateSucceeded(c, thr))
       ELSE CycleEnds(c, "fetch", UpdateFailed(c, "fetch"))
    /\ UNCHANGED <<pureVars, interfaceVars, onCreate, currentDevice, currentUpdateInterval,
                   currentReconnectTimeout, liveIntervals, opn, cls, nCycles, idle>>

Throwing == {"none", "update", "valid-update"}

Next ==
    \/ initialize
    \/ \E o \in Opens : OpenCall(o)
    \/ \E o \in Opens : OpenCloseDone(o)
    \/ \E o \in Opens, ok \in BOOLEAN : OpenCreateDone(o, ok)
    \/ \E k \in Closes : CloseCall(k)
    \/ \E k \in Closes : CloseDone(k)
    \/ \E t \in Opens : TimerFire(t)
    \/ \E c \in Cycles, ok \in BOOLEAN : CycleOpenDone(c, ok)
    \/ \E c \in Cycles, good \in BOOLEAN : CycleWakeReply(c, good)
    \/ \E c \in Cycles : CycleConnectionError(c)
    \/ \E c \in Cycles, ok \in BOOLEAN, thr \in Throwing : CycleFetchReply(c, ok, thr)
    \/ \E w \in Waits, kind \in {"update", "valid-update"}, late \in BOOLEAN :
            WaitCall(w, kind, late)

Spec == Init /\ [][Next]_vars

\* ------------------------------------------------- the device interface
Ack == 6                  \* 0x06, the acknowledgement byte
PackageTypeOffset == 5    \* data.readUInt8(5)

RECURSIVE xor(_, _)
xor(a, b) ==
    IF a = 0 THEN b
    ELSE IF b = 0 THEN a
    ELSE ((a + b) % 2) + 2 * xor(a \div 2, b \div 2)

\* CRC16_CCIT_ZERO: polynomial 0x1021, initial value 0, 16 bits wide, bits of a
\* byte taken from the most significant one
RECURSIVE crcShift(_, _)
crcShift(crc, n) ==
    IF n = 0 THEN crc
    ELSE crcShift(IF crc >= 32768 THEN xor((2 * crc) % 65536, 4129) ELSE 2 * crc, n - 1)

RECURSIVE crcBytes(_, _)
crcBytes(crc, buffer) ==
    IF buffer = << >> \/ crc \notin 0..65535 THEN crc    \* the register has 16 bits
    ELSE crcBytes(crcShift(xor(crc, 256 * Head(buffer)), 8), Tail(buffer))

\* ------ what the console sends: a framed package, whole or in two chunks
Loop1Payload == <<1, 2, 3, 4, 0>>    \* the byte at offset 5 of the package is 0
Loop2Payload == <<1, 2, 3, 4, 1>>
Nak == 21                            \* 0x15
Uint16BE(v) == <<v \div 256, v % 256>>
CrcBytes(payload, good) ==
    Uint16BE(IF good THEN crcBytes(0, payload) ELSE (crcBytes(0, payload) + 1) % 65536)
Packages ==
    {<<a>> \o p \o CrcBytes(p, good) : a \in {Ack, Nak}, p \in {Loop1Payload, Loop2Payload},
                                       good \in BOOLEAN}
FirstChunks == {<<a>> \o Loop2Payload : a \in {Ack, Nak}}
SecondChunks == {CrcBytes(Loop2Payload, good) : good \in BOOLEAN}
Chunks == Packages \cup FirstChunks \cup SecondChunks

\* the CRC of the weather data of every buffer the console can make arrive,
\* computed once
Buffers == {b \in Chunks \cup {x \o y : x, y \in Chunks} : Len(b) >= 3}
CrcTable == [d \in {SubSeq(b, 2, Len(b) - 2) : b \in Buffers} |-> crcBytes(0, d)]

\* computeCRC: this.crc16.compute(dataBuffer)
computeCRC(dataBuffer) ==
    IF dataBuffer \in DOMAIN CrcTable THEN CrcTable[dataBuffer] ELSE crcBytes(0, dataBuffer)

\* validateCRC: exspectedCRC === crc
validateCRC(dataBuffer, exspectedCRC) == exspectedCRC = computeCRC(dataBuffer)

readUInt8(buffer, offset) == buffer[offset + 1]

readUInt16BE(buffer, offset) == 256 * buffer[offset + 1] + buffer[offset + 2]

\* a split that leaves the acknowledgement byte in the weather data
splitWithAck(buffer) ==
    [ack |-> readUInt8(buffer, 0),
     weatherData |-> SubSeq(buffer, 1, Len(buffer) - 2),
     crc |-> readUInt16BE(buffer, Len(buffer) - 2)]

\* splitCRCAckDataPackage: buffer.copy(bufferCopy, 0, 1, buffer.length - 2)
splitCRCAckDataPackage(buffer) ==
    [ack |-> readUInt8(buffer, 0),
     weatherData |-> SubSeq(buffer, 2, Len(buffer) - 2),
     crc |-> readUInt16BE(buffer, Len(buffer) - 2)]

\* validateAcknowledgementByte: the first byte of the response is 0x06
validateAcknowledgementByte(data) == readUInt8(data, 0) = Ack

\* a concatenation in the wrong order
dataFullSwapped(firstPart, secondPart) == secondPart \o firstPart

\* Buffer.concat([firstPartOfLOOP2, secondPartOfLOOP2])
dataFull(firstPart, secondPart) == firstPart \o secondPart

\* A call of an operation: the old interface (getHighsAndLows, getRealtimeData) runs
\* port.write(command, callback) in the executor of its promise; getLOOP1 and
\* getLOOP2 call checkPortConnection() first, which throws on a closed port
Begun(kind) ==
    IF kind \in {"LPS1", "LPS2"} /\ port = "closed"
    THEN [NoOp EXCEPT !.kind = kind, !.pc = "end", !.settled = "rejected",
                      !.err = "ClosedConnection"]
    ELSE [NoOp EXCEPT !.kind = kind, !.pc = "writing"]

Call(i, kind) ==
    /\ op[i].pc = "idle"
    /\ \A j \in Ops : j < i => op[j].pc # "idle"
    /\ op' = [op EXCEPT ![i] = Begun(kind)]
    /\ UNCHANGED <<port, wake, containerVars, pureVars>>

getHighsAndLows(i) == Call(i, "HILOWS")

getRealtimeData(i) == Call(i, "LOOP")

getLOOP1(i) == Call(i, "LPS1")

getLOOP2(i) == Call(i, "LPS2")

\* reject(...), or an exception thrown in an async function: settles a promise once
Reject(o, e) == IF o.settled = "pending" THEN [o EXCEPT !.settled = "rejected", !.err = e] ELSE o

\* resolve(...), or an async function returning
Resolve(o) == IF o.settled = "pending" THEN [o EXCEPT !.settled = "resolved"] ELSE o

\* the callback of port.write. Old interface: if (err) reject(...); then
\* this.port.once("data", ...) in any case. writeAndWaitForBuffer fails on a write
\* error and waits for the next buffer else.
WriteCallback(i) ==
    /\ op[i].pc = "writing"
    /\ op' = [op EXCEPT ![i] =
                IF port = "open" THEN [op[i] EXCEPT !.pc = "data"]
                ELSE IF op[i].kind \in {"LPS1", "LPS2"}
                     THEN [Reject(op[i], "FailedToWrite") EXCEPT !.pc = "end"]
                     ELSE [Reject(op[i], "FailedToWrite") EXCEPT !.pc = "data"]]
    /\ UNCHANGED <<port, wake, containerVars, pureVars>>

\* an exception thrown inside a listener of the port settles no promise
Thrown(o) == [o EXCEPT !.pc = "end"]

\* old interface, lines 782-792 (815-822, 828-835): split, check the CRC, reject on
\* a mismatch and go on, parse, resolve
SplitCheckParse(o, buffer) ==
    IF Len(buffer) < 3 THEN Thrown(o)
    ELSE LET splittedData == splitCRCAckDataPackage(buffer)
             checked == IF validateCRC(splittedData.weatherData, splittedData.crc)
                        THEN o ELSE Reject(o, "MalformedData")
         IN [Resolve(checked) EXCEPT !.pc = "end", !.crcOver = splittedData.weatherData,
                                     !.crcWith = splittedData.crc,
                                     !.parsed = splittedData.weatherData]

\* getLOOP1 / getLOOP2, lines 81-89 (121-129): split, validateCRC throws on a
\* mismatch, parse, return
SplitValidateParse(o, buffer) ==
    IF Len(buffer) < 3 THEN [Reject(o, "RangeError") EXCEPT !.pc = "end"]
    ELSE LET splittedData == splitCRCAckDataPackage(buffer)
             checked == [o EXCEPT !.pc = "end", !.crcOver = splittedData.weatherData,
                                  !.crcWith = splittedData.crc]
         IN IF validateCRC(splittedData.weatherData, splittedData.crc)
            THEN Resolve([checked EXCEPT !.parsed = splittedData.weatherData])
            ELSE Reject(checked, "MalformedData")

\* a check of the package type that reads the byte before it
CheckAckAndTypeBefore(o, data, wanted, framed) ==
    IF ~validateAcknowledgementByte(data)
    THEN [Reject(o, "FailedToSendCommand") EXCEPT !.pc = "end"]
    ELSE IF Len(data) <= PackageTypeOffset
    THEN [Reject(o, "RangeError") EXCEPT !.pc = "end"]
    ELSE IF (readUInt8(data, PackageTypeOffset - 1) = 0) = wanted
    THEN framed
    ELSE [Reject(o, "UnsupportedDeviceModel") EXCEPT !.pc = "end"]

\* getLOOP1 / getLOOP2 after the first buffer: the acknowledgement byte, then the
\* package type
CheckAckAndType(o, data, wanted, framed) ==
    IF ~validateAcknowledgementByte(data)
    THEN [Reject(o, "FailedToSendCommand") EXCEPT !.pc = "end"]
    ELSE IF Len(data) <= PackageTypeOffset
    THEN [Reject(o, "RangeError") EXCEPT !.pc = "end"]
    ELSE IF (readUInt8(data, PackageTypeOffset) = 0) = wanted
    THEN framed
    ELSE [Reject(o, "UnsupportedDeviceModel") EXCEPT !.pc = "end"]

\* the listener of the operation o receives the chunk data
OnData(o, data) ==
    LET got == [o EXCEPT !.chunks = Append(o.chunks, data)] IN
    CASE o.kind = "HILOWS" -> SplitCheckParse(got, data)
      [] o.kind = "LOOP" /\ o.pc = "data" ->
            IF Len(data) <= PackageTypeOffset THEN Thrown(got)
            ELSE IF readUInt8(data, PackageTypeOffset) = 0
                 THEN SplitCheckParse(got, data)
                 ELSE [got EXCEPT !.pc = "data2"]
      [] o.kind = "LOOP" /\ o.pc = "data2" ->
            SplitCheckParse(got, dataFull(o.chunks[1], data))
      [] o.kind = "LPS1" ->
            CheckAckAndType(got, data, TRUE, SplitValidateParse(got, data))
      [] o.kind = "LPS2" /\ o.pc = "data" ->
            CheckAckAndType(got, data, FALSE, [got EXCEPT !.pc = "data2"])
      [] o.kind = "LPS2" /\ o.pc = "data2" ->
            SplitValidateParse(got, dataFull(o.chunks[1], data))

\* the port emits "data": every listener registered at that time is called once
DataEvent(data) ==
    /\ port = "open"
    /\ \E i \in Ops : op[i].pc \in {"data", "data2"}
    /\ op' = [i \in Ops |-> IF op[i].pc \in {"data", "data2"}
                            THEN OnData(op[i], data) ELSE op[i]]
    /\ UNCHANGED <<port, wake, containerVars, pureVars>>

\* waitForBuffer: the deadline of a wait passes
WaitTimeout(i) ==
    /\ op[i].kind \in {"LPS1", "LPS2"}
    /\ op[i].pc \in {"data", "data2"}
    /\ op' = [op EXCEPT ![i] = [Reject(op[i], "Timeout") EXCEPT !.pc = "end"]]
    /\ UNCHANGED <<port, wake, containerVars, pureVars>>

\* close(): this.port.close()
close ==
    /\ port = "open"
    /\ port' = "closed"
    /\ UNCHANGED <<op, wake, containerVars, pureVars>>

\* --------------------------------------- getRichRealtimeData(): the two fetches
\* VantPro2Interface.ts, lines 143-146: checkPortConnection() throws on a closed
\* port; else getLOOP1() is called and runs up to its write of "LPS 1 1\n"
RichCall ==
    /\ rich.pc = "idle"
    /\ op[1].pc = "idle"
    /\ IF port = "closed"
       THEN /\ rich' = [rich EXCEPT !.pc = "rejected", !.err = "ClosedConnection"]
            /\ UNCHANGED op
       ELSE /\ rich' = [rich EXCEPT !.pc = "loop1"]
            /\ op' = [op EXCEPT ![1] = Begun("LPS1")]
    /\ UNCHANGED <<port, wake, containerVars, parser>>

\* a getRichRealtimeData() that calls getLOOP2() whatever became of getLOOP1()
Loop1SettledLoop2Anyway ==
    /\ rich.pc = "loop1"
    /\ op[1].settled # "pending"
    /\ rich' = [rich EXCEPT !.pc = "loop2", !.loop1 = op[1]]
    /\ op' = [op EXCEPT ![1] = Begun("LPS2")]
    /\ UNCHANGED <<port, wake, containerVars, parser>>

\* line 146: await this.getLOOP1() is over. Its rejection leaves the async function
\* as the rejection of getRichRealtimeData(); else lines 147-154 run and getLOOP2()
\* is called, up to its write of "LPS 2 1\n"
Loop1Settled ==
    /\ rich.pc = "loop1"
    /\ op[1].settled # "pending"
    /\ IF op[1].settled = "rejected"
       THEN /\ rich' = [rich EXCEPT !.pc = "rejected", !.err = op[1].err, !.loop1 = op[1]]
            /\ UNCHANGED op
       ELSE /\ rich' = [rich EXCEPT !.pc = "loop2", !.loop1 = op[1]]
            /\ op' = [op EXCEPT ![1] = Begun("LPS2")]
    /\ UNCHANGED <<port, wake, containerVars, parser>>

\* line 154: await this.getLOOP2() is over. Its rejection is that of
\* getRichRealtimeData(); else lines 155-173 make the record of the two packages
Loop2Settled ==
    /\ rich.pc = "loop2"
    /\ op[1].settled # "pending"
    /\ rich' = IF op[1].settled = "rejected"
               THEN [rich EXCEPT !.pc = "rejected", !.err = op[1].err, !.loop2 = op[1]]
               ELSE [rich EXCEPT !.pc = "resolved", !.loop2 = op[1],
                                 !.record = <<rich.loop1.parsed, op[1].parsed>>]
    /\ UNCHANGED <<port, op, wake, containerVars, parser>>

RichNext ==
    \/ RichCall
    \/ Loop1Settled
    \/ Loop2Settled
    \/ \E i \in Ops : WriteCallback(i)
    \/ \E data \in Chunks : DataEvent(data)
    \/ \E i \in Ops : WaitTimeout(i)
    \/ close

RichInit == Init /\ onCreate = WaitForFirstUpdate

RichSpec == RichInit /\ [][RichNext]_vars

\* ------------------------------------------------------------- wakeUp()
LfCr == <<10, 13>>     \* the two bytes of "\n\r"

\* what the console may answer to the wake-up byte
WakeReplies == {LfCr, <<0, 0>>, <<10, 13, 0>>, <<10>>}

\* a comparison that accepts every response starting with "\n\r"
responseStartsWithLfCr(r) == Len(r) >= 2 /\ SubSeq(r, 1, 2) = LfCr

\* wakeUp(), lines 693-694: response === "\n\r"
responseIsLfCr(r) == r = LfCr

\* wakeUp(), lines 686-704: the promise of an attempt resolved with succeeded; then
\* tries++ and the loop test. Another round writes "\n" at once (line 688).
AttemptDone(w, succeeded) ==
    LET tries == w.tries + 1 IN
    IF succeeded THEN [w EXCEPT !.pc = "awake", !.tries = tries]
    ELSE IF tries <= WakeRetryLimit
         THEN [w EXCEPT !.pc = "writing", !.tries = tries, !.writes = w.writes + 1]
         ELSE [w EXCEPT !.pc = "failed", !.tries = tries]

\* wakeUp() is called: lines 684-688 run up to the first port.write("\n", ...)
wakeUp ==
    /\ wake.pc = "idle"
    /\ wake' = [NoWake EXCEPT !.pc = "writing", !.writes = 1]
    /\ UNCHANGED <<port, op, containerVars, pureVars>>

\* the callback of port.write, lines 688-692: resolve(false) on a write error,
\* else this.port.once("readable", ...)
WakeWriteCallback ==
    /\ wake.pc = "writing"
    /\ wake' = IF port = "open" THEN [wake EXCEPT !.pc = "readable"]
                               ELSE AttemptDone(wake, FALSE)
    /\ UNCHANGED <<port, op, containerVars, pureVars>>

\* the once("readable") listener, lines 692-699, reads the response r
WakeReadable(r) ==
    /\ wake.pc = "readable"
    /\ port = "open"
    /\ wake' = AttemptDone([wake EXCEPT !.replies = Append(wake.replies, r)],
                           responseIsLfCr(r))
    /\ UNCHANGED <<port, op, containerVars, pureVars>>

WakeNext ==
    \/ wakeUp
    \/ WakeWriteCallback
    \/ \E r \in WakeReplies : WakeReadable(r)
    \/ close

InterfaceNext ==
    \/ \E i \in Ops : getHighsAndLows(i)
    \/ \E i \in Ops : getRealtimeData(i)
    \/ \E i \in Ops : getLOOP1(i)
    \/ \E i \in Ops : getLOOP2(i)
    \/ \E i \in Ops : WriteCallback(i)
    \/ \E data \in Chunks : DataEvent(data)
    \/ \E i \in Ops : WaitTimeout(i)
    \/ close

\* the container of the interface is left as constructed
InterfaceInit == Init /\ onCreate = WaitForFirstUpdate

\* The event loop runs every callback that is due: a write's callback is called
\* and the deadline of a waitForBuffer passes. Data arrives only if the console
\* sends it.
InterfaceSpec ==
    /\ InterfaceInit
    /\ [][InterfaceNext]_vars
    /\ WF_vars(\E i \in Ops : WriteCallback(i))
    /\ \A i \in Ops : WF_vars(WaitTimeout(i))

\* The callback of a write is called; the console answers or stays silent.
WakeSpec ==
    /\ InterfaceInit
    /\ [][WakeNext]_vars
    /\ WF_vars(WakeWriteCallback)

\* ================================================================ claims
Running(c) == cyc[c].pc \notin {"none", "done"}

LiveDevices == {d \in Devices : dev[d].st \in {"new", "live"}}

\* C1: a cycle started by the periodic timer never begins while another cycle of
\* the container is still running.
C1_CyclesSerial ==
    [][\A c \in Cycles :
          (cyc[c].pc = "none" /\ cyc'[c].pc = "open" /\ cyc'[c].src = "timer")
              => \A b \in Cycles : ~Running(b)]_vars

\* C2: at most one command of a device is written and still waiting for its response.
C2_OneOutstanding == \A d \in Devices : dev[d].out <= 1

\* C3: every live interval timer is the one the container references, so at most
\* one is live; no reconnect timer is ever set, so none is pending.
C3_OneTimer ==
    /\ liveIntervals \subseteq {currentUpdateInterval}
    /\ Cardinality(liveIntervals) <= 1
    /\ currentReconnectTimeout = 0

\* C4: at most one device instance is constructed and not yet closed.
C4_OneDevice == Cardinality(LiveDevices) <= 1

\* C5: every valid-update event directly follows the error-free update event of
\* the same cycle, and that cycle's open, wake-up and fetch did not fail.
C5_ValidAfterUpdate ==
    \A i \in DOMAIN emitted :
        emitted[i].ev = "valid-update" =>
            /\ i > 1
            /\ emitted[i - 1] = Ev("update", emitted[i].id, "none")
            /\ cyc[emitted[i].id].err = "none"

\* C5 witness: a cycle emitted update and then valid-update while an earlier cycle
\* had failed without a valid-update.
C5_Witness ==
    /\ Len(emitted) = 2
    /\ emitted[2].ev = "valid-update"
    /\ \E c \in Cycles : cyc[c].pc = "done" /\ cyc[c].err # "none" /\ cyc[c].val = 0

\* C6: an update event carries an error exactly if open, wake-up or fetch of its
\* cycle failed, and then it carries that error.
C6_ErrorIffFailed ==
    \A i \in DOMAIN emitted :
        emitted[i].ev = "update" =>
            /\ emitted[i].err # "none" <=> cyc[emitted[i].id].err # "none"
            /\ emitted[i].err = cyc[emitted[i].id].err

\* C7: when a close() call completes, the update timer is cleared, the transport of
\* the device it closed is closed and a close event was delivered since the call.
C7_CloseCompletes ==
    [][\A k \in Closes :
          (cls[k].pc # "done" /\ cls'[k].pc = "done") =>
              /\ currentUpdateInterval' = 0
              /\ cls'[k].cl # 0 => dev'[cls'[k].cl].port = "closed"
              /\ cls'[k].ev]_vars

\* C8: from the completion of a close() call until the next open() call the update
\* timer and the reconnect timer are cleared and no device is live.
C8_IdleAfterClose ==
    idle => /\ currentUpdateInterval = 0
            /\ liveIntervals = {}
            /\ currentReconnectTimeout = 0
            /\ currentDevice = 0
            /\ LiveDevices = {}

Waiting(i) == op[i].pc \in {"data", "data2"} /\ op[i].settled = "pending"

\* C9: an operation waiting for response bytes when the transport is closed
\* eventually resolves or fails.
C9_WaitObservesClose ==
    \A i \in Ops : (port = "closed" /\ Waiting(i)) ~> (op[i].settled # "pending")

ValidUpdateSeen == \E c \in Cycles : cyc[c].val > 0

\* C10: with onCreate = WaitForFirstValidUpdate the creation has resolved exactly
\* if a valid-update event has been emitted; failed cycles do not resolve it.
C10_WaitsForValidUpdate ==
    onCreate = WaitForFirstValidUpdate => (created <=> ValidUpdateSeen)

\* C10 witness: the first cycle failed and emitted update(err), the next cycle
\* emits valid-update now and the creation resolves.
C10_Witness ==
    /\ onCreate = WaitForFirstValidUpdate
    /\ cyc[1].pc = "done" /\ cyc[1].err # "none" /\ cyc[1].upd = 1
    /\ HasEvent(emitted, "valid-update") /\ emitted[1].id = 2
    /\ created

UpdateSeen == \E c \in Cycles : cyc[c].upd > 0

C12_OpenNotMissed ==
    /\ \A o \in Opens : opn[o].pc = "waitOpen" => dev[o].port = "closed"
    /\ (onCreate = WaitUntilOpen /\ dev[1].port = "open") => created

\* C13: a cycle that ends with an error of open, wake-up or fetch ends in the step
\* that follows onConnectionError().
C13_ErrorInvokesHook ==
    [][\A c \in Cycles :
          (cyc[c].pc # "done" /\ cyc'[c].pc = "done" /\ cyc'[c].err # "none")
              => cyc[c].pc = "connErr"]_vars

\* C14: when an update event of a connection generation is emitted, the open event
\* of that generation has been emitted.
C14_OpenBeforeUpdate ==
    \A i \in DOMAIN emitted :
        emitted[i].ev = "update" => opn[cyc[emitted[i].id].dev].pc = "resolved"

\* C15: wakeUp() writes the wake-up byte at most 3 times and, when no attempt
\* succeeds, fails after exactly 3 attempts.
C15_AtMostThreeWrites ==
    /\ wake.writes <= 3
    /\ wake.pc = "failed" => wake.tries = 3

\* C16: wakeUp() has succeeded exactly if a response was the two bytes 0x0A 0x0D;
\* no attempt follows such a response, and when the first response is 0x0A 0x0D
\* one wake-up byte was written.
C16_SucceedsIffLfCr ==
    /\ wake.pc = "awake" <=> \E i \in DOMAIN wake.replies : wake.replies[i] = LfCr
    /\ \A i \in DOMAIN wake.replies : wake.replies[i] = LfCr => i = Len(wake.replies)
    /\ (wake.replies # << >> /\ wake.replies[1] = LfCr) => wake.writes = 1

\* C16 witness: two responses that are not "\n\r", one of them starting with it,
\* then "\n\r": wakeUp() succeeded at the third attempt.
C16_Witness ==
    /\ wake.pc = "awake"
    /\ wake.replies = <<(<<10, 13, 0>>), (<<0, 0>>), LfCr>>
    /\ wake.writes = 3

\* C17: while the port stays open, a call of wakeUp() eventually returns or throws.
C17_WakeUpTerminates ==
    [](port = "open") => ((wake.pc # "idle") ~> (wake.pc \in {"awake", "failed"}))

\* the bytes an operation framed: its chunk, or its two chunks in order of arrival
Framed(o) == IF Len(o.chunks) = 2 THEN o.chunks[1] \o o.chunks[2] ELSE o.chunks[1]

PayloadOf(buffer) == SubSeq(buffer, 2, Len(buffer) - 2)

\* C18: an operation that reads a CRC-framed response whose first byte is not
\* 0x06 has failed with FailedToSendCommand.
C18_NotAckFails ==
    \A i \in Ops :
        (/\ op[i].kind \in {"HILOWS", "LPS1", "LPS2"}
         /\ op[i].chunks # << >>
         /\ op[i].chunks[1][1] # 6)
            => op[i].settled = "rejected" /\ op[i].err = "FailedToSendCommand"

\* C19: an operation that checked a CRC checked the CRC16 of all bytes of the
\* response but the first and the last two against the big-endian value of the
\* last two; on a mismatch it has failed with MalformedData, and a record it
\* returned was parsed from those bytes.
C19_CrcOverPayload ==
    \A i \in Ops :
        op[i].crcOver # None =>
            LET buffer == Framed(op[i])
                crc == 256 * buffer[Len(buffer) - 1] + buffer[Len(buffer)]
            IN /\ op[i].crcOver = PayloadOf(buffer)
               /\ op[i].crcWith = crc
               /\ crcBytes(0, PayloadOf(buffer)) # crc
                      => op[i].settled = "rejected" /\ op[i].err = "MalformedData"
               /\ op[i].settled = "resolved" => op[i].parsed = PayloadOf(buffer)

\* C19 witness: getLOOP1() got an acknowledged package whose CRC bytes do not
\* match and failed with MalformedData.
C19_Witness ==
    \E i \in Ops :
        /\ op[i].kind = "LPS1"
        /\ op[i].chunks = <<(<<Ack>> \o Loop1Payload \o CrcBytes(Loop1Payload, FALSE))>>
        /\ op[i].settled = "rejected" /\ op[i].err = "MalformedData"

\* an operation that reads a package in two chunks
TwoChunks(o) ==
    \/ o.kind = "LPS2"
    \/ o.kind = "LOOP" /\ o.chunks # << >> /\ Len(o.chunks[1]) > 5 /\ o.chunks[1][6] # 0

\* C20: getLOOP2() (and getRealtimeData() on a package of type LOOP2) takes at
\* most two chunks; a CRC check or a parse happens only when both have arrived and
\* is done on the first chunk followed by the second.
C20_FramesBothChunks ==
    \A i \in Ops :
        TwoChunks(op[i]) =>
            /\ Len(op[i].chunks) <= 2
            /\ op[i].settled = "resolved" => op[i].parsed # None
            /\ (op[i].crcOver # None \/ op[i].parsed # None) =>
                  /\ Len(op[i].chunks) = 2
                  /\ op[i].crcOver = PayloadOf(op[i].chunks[1] \o op[i].chunks[2])
                  /\ op[i].parsed \in {None, op[i].crcOver}

\* C20 witness: getLOOP2() got the acknowledgement byte and the payload, then the
\* two CRC bytes, and returned the record parsed from the payload.
C20_Witness ==
    \E i \in Ops :
        /\ op[i].kind = "LPS2"
        /\ op[i].chunks = <<(<<Ack>> \o Loop2Payload), CrcBytes(Loop2Payload, TRUE)>>
        /\ op[i].settled = "resolved"
        /\ op[i].parsed = Loop2Payload

\* the first chunk of o passed the checks made on it: it is acknowledged and long
\* enough to hold a package type
Acknowledged(o) ==
    o.chunks # << >> /\ o.chunks[1][1] = 6 /\ Len(o.chunks[1]) > 5

\* C21: while the port stays open, an operation that waits for the second chunk
\* of a package eventually ends, and when it ends without a second chunk it has
\* failed with Timeout.
C21_SecondChunkTimeout ==
    /\ [](port = "open") =>
          \A i \in Ops : (TwoChunks(op[i]) /\ op[i].pc = "data2") ~> (op[i].pc = "end")
    /\ [](\A i \in Ops :
            (/\ TwoChunks(op[i]) /\ op[i].pc = "end"
             /\ Len(op[i].chunks) = 1 /\ Acknowledged(op[i]) /\ op[i].chunks[1][6] # 0)
                => op[i].settled = "rejected" /\ op[i].err = "Timeout")

\* C22: an operation called while the port is closed fails at once with
\* ClosedConnection and writes nothing.
C22_ClosedPortGuard ==
    [][\A i \in Ops :
          (port = "closed" /\ op[i].pc = "idle" /\ op'[i].pc # "idle")
              => /\ op'[i].pc = "end"
                 /\ op'[i].settled = "rejected"
                 /\ op'[i].err = "ClosedConnection"]_vars

\* C23: getLOOP1() has returned a record only of a response whose payload[4] is
\* 0, and getLOOP2() only of one whose payload[4] is not 0; on an acknowledged
\* response of the other type they have failed with UnsupportedDeviceModel, and
\* with that error only then.
C23_PackageType ==
    \A i \in Ops :
        op[i].kind \in {"LPS1", "LPS2"} =>
            LET wanted == (op[i].kind = "LPS1")
                isLoop1 == op[i].chunks[1][6] = 0    \* payload[4] of the response
            IN /\ op[i].settled = "resolved" => (Acknowledged(op[i]) /\ isLoop1 = wanted)
               /\ (Acknowledged(op[i]) /\ isLoop1 # wanted)
                      => op[i].settled = "rejected" /\ op[i].err = "UnsupportedDeviceModel"
               /\ op[i].err = "UnsupportedDeviceModel"
                      => (Acknowledged(op[i]) /\ isLoop1 # wanted)

\* C23 witness: getLOOP2() got an acknowledged LOOP1 package and failed with
\* UnsupportedDeviceModel.
C23_Witness ==
    \E i \in Ops :
        /\ op[i].kind = "LPS2"
        /\ op[i].chunks = <<(<<Ack>> \o Loop1Payload \o CrcBytes(Loop1Payload, TRUE))>>
        /\ op[i].settled = "rejected" /\ op[i].err = "UnsupportedDeviceModel"

\* ------------------------------------------------- the rich realtime record
\* A parsed value is a number, null or an object; an object maps the names of
\* its properties to values. A property an object does not have is not in
\* the domain of the map.
Num(n) == [t |-> "num", n |-> n]
Null == [t |-> "null"]
Obj(f) == [t |-> "obj", f |-> f]
NoProperties == [k \in {} |-> Null]

\* delete object[key] for every key of keys
Delete(object, keys) == [k \in (DOMAIN object) \ keys |-> object[k]]

\* The values LOOP1 wins over: a property of the source that is an object is
\* merged into the property of the destination, every other value stays as
\* the destination has it.
RECURSIVE mergeKeepObject(_, _)
mergeKeepObject(object, source) ==
    [k \in (DOMAIN object) \cup (DOMAIN source) |->
        IF k \notin DOMAIN source THEN object[k]
        ELSE IF k \notin DOMAIN object THEN source[k]
        ELSE IF source[k].t = "obj" /\ object[k].t = "obj"
             THEN Obj(mergeKeepObject(object[k].f, source[k].f))
             ELSE object[k]]

\* merge(object, source) of lodash: the properties of the source are assigned
\* to the destination, objects recursively; a null of the source is assigned
\* as every other value is.
RECURSIVE merge(_, _)
merge(object, source) ==
    [k \in (DOMAIN object) \cup (DOMAIN source) |->
        IF k \notin DOMAIN source THEN object[k]
        ELSE IF source[k].t = "obj"
             THEN Obj(merge(IF k \in DOMAIN object /\ object[k].t = "obj"
                            THEN object[k].f ELSE NoProperties,
                            source[k].f))
             ELSE source[k]]

\* new RichRealtimeData() and new RichRainData()
RichRealtimeData == NoProperties
RichRainData == NoProperties

Loop1Deleted == {"alarms", "packageType", "nextArchiveRecord", "rain"}
Loop2Deleted == {"et", "packageType", "graphPointers", "humidity", "temperature", "rain"}

\* the rain of the record with the packages in the other order
richRainLoop1Last(rain1Data, rain2Data) == merge(merge(RichRainData, rain2Data), rain1Data)

\* richRealtimeRecord.rain = merge(new RichRainData(), rain1Data, rain2Data)
richRain(rain1Data, rain2Data) == merge(merge(RichRainData, rain1Data), rain2Data)

\* the record getRichRealtimeData() returns for the two packages it fetched
richRealtimeRecord(loop1Package, loop2Package) ==
    LET rain1Data == loop1Package["rain"].f
        rain2Data == loop2Package["rain"].f
        loop1 == Delete(loop1Package, Loop1Deleted)
        loop2 == Delete(loop2Package, Loop2Deleted)
        merged == merge(merge(RichRealtimeData, loop1), loop2)
    IN  [k \in (DOMAIN merged) \cup {"rain"} |->
            IF k = "rain" THEN Obj(richRain(rain1Data, rain2Data)) ELSE merged[k]]

\* The packages of the console: the rain of a package has any of the rain
\* fields, each a number or null; the pressure is missing, a number, null or
\* an object.
RainFields == {"day", "storm", "rate"}
Rains(values) == UNION {[fields -> values] : fields \in SUBSET RainFields}
Pressures(n) ==
    {NoProperties} \cup
    {[pressure |-> v] : v \in {Num(n), Null, Obj([current |-> Num(n)])}}
Loop1Packages ==
    {[temperature |-> Obj([in |-> Num(70), out |-> Num(72)]),
      humidity |-> Obj([in |-> Num(40)]),
      rain |-> Obj(r), packageType |-> Num(0), alarms |-> Num(0),
      nextArchiveRecord |-> Num(7)] @@ p :
        r \in Rains({Num(25), Null}), p \in Pressures(1)}
Loop2Packages ==
    {[temperature |-> Obj([out |-> Num(99)]),
      humidity |-> Obj([in |-> Num(41)]),
      rain |-> Obj(r), packageType |-> Num(1), et |-> Num(3),
      graphPointers |-> Num(9)] @@ p :
        r \in Rains({Num(10), Null}), p \in Pressures(2)}

\* getRichRealtimeData(): the two packages are the answers of the console
getRichRealtimeData ==
    /\ rich.pc = "fetched"
    /\ rich' = [rich EXCEPT !.pc = "done",
                            !.record = richRealtimeRecord(rich.loop1, rich.loop2)]
    /\ UNCHANGED <<containerVars, interfaceVars, parser>>

MergeInit ==
    /\ ProgramInit /\ onCreate = WaitForFirstUpdate
    /\ parser = NoParser
    /\ rich \in {[NoRich EXCEPT !.pc = "fetched", !.loop1 = l1, !.loop2 = l2] :
                    l1 \in Loop1Packages, l2 \in Loop2Packages}

MergeNext == getRichRealtimeData

MergeSpec == MergeInit /\ [][MergeNext]_vars

\* the value at a path of property names, a path of one or two names
Has(object, path) ==
    /\ path[1] \in DOMAIN object
    /\ Len(path) = 2 => /\ object[path[1]].t = "obj"
                        /\ path[2] \in DOMAIN object[path[1]].f
At(object, path) == IF Len(path) = 1 THEN object[path[1]] ELSE object[path[1]].f[path[2]]
Names == {"temperature", "humidity", "pressure", "rain", "packageType", "alarms",
          "nextArchiveRecord", "et", "graphPointers", "in", "out", "current",
          "day", "storm", "rate"}
Paths == {<<a>> : a \in Names} \cup {<<a, b>> : a \in Names, b \in Names}
\* the fields of a record: the paths to its values that are not objects
Fields(object) == {path \in Paths : Has(object, path) /\ At(object, path).t # "obj"}

\* C24 as the specification states it: a field of the rich record that LOOP1
\* and LOOP2 both have has the value of LOOP2, so temperature.out that of LOOP2.
C24_LOOP2Wins ==
    rich.pc = "done" =>
        \A path \in Fields(rich.loop1) \cap Fields(rich.loop2) :
            (path[1] # "rain" /\ Has(rich.record, path))
                => At(rich.record, path) = At(rich.loop2, path)

\* C24 amended: a field that both packages have after their deleted properties
\* are gone has the value of LOOP2 in the rich record; temperature and
\* humidity are deleted from LOOP2, so their fields are those of LOOP1.
C24_TrimmedLOOP2Wins ==
    rich.pc = "done" =>
        LET loop1 == [k \in (DOMAIN rich.loop1) \ Loop1Deleted |-> rich.loop1[k]]
            loop2 == [k \in (DOMAIN rich.loop2) \ Loop2Deleted |-> rich.loop2[k]]
        IN  /\ \A path \in Fields(loop1) \cap Fields(loop2) :
                   Has(rich.record, path) /\ At(rich.record, path) = At(loop2, path)
            /\ \A path \in Fields(rich.loop1) :
                   path[1] \in {"temperature", "humidity"} =>
                       Has(rich.record, path) /\ At(rich.record, path) = At(rich.loop1, path)

C24_Witness ==
    /\ rich.pc = "done"
    /\ At(rich.loop1, <<"temperature", "out">>) = Num(72)
    /\ At(rich.loop2, <<"temperature", "out">>) = Num(99)
    /\ At(rich.record, <<"temperature", "out">>) = Num(72)
    /\ Has(rich.loop1, <<"pressure", "current">>)
    /\ Has(rich.loop2, <<"pressure", "current">>)
    /\ At(rich.record, <<"pressure", "current">>) = Num(2)

\* C25: the rain of the rich record has every rain field of LOOP1 and of
\* LOOP2; a field only LOOP1 has keeps the value of LOOP1, a field only LOOP2
\* has keeps the value of LOOP2, a field both have has the value of LOOP2.
C25_RainMerge ==
    rich.pc = "done" =>
        LET rain1 == rich.loop1["rain"].f
            rain2 == rich.loop2["rain"].f
            rain == rich.record["rain"].f
        IN  /\ DOMAIN rain = (DOMAIN rain1) \cup (DOMAIN rain2)
            /\ \A k \in DOMAIN rain :
                   rain[k] = IF k \in DOMAIN rain2 THEN rain2[k] ELSE rain1[k]

C25_Witness ==
    /\ rich.pc = "done"
    /\ rich.loop1["rain"].f = [day |-> Num(25), storm |-> Null]
    /\ rich.loop2["rain"].f = [storm |-> Num(10), rate |-> Num(10)]
    /\ rich.record["rain"].f = [day |-> Num(25), storm |-> Num(10), rate |-> Num(10)]

\* ------------------------------------------------- BinaryParser
\* What parsing yields besides numbers, null and NaN: the wrapper of a value
\* that depends on another property, an object (its keys in the order they
\* were assigned) and an array. A call ends by returning, by throwing, or not
\* at all.
Dep(value, dependsOn) == [t |-> "dep", value |-> value, dependsOn |-> dependsOn]
Record(keys, f) == [t |-> "rec", keys |-> keys, f |-> f]
Arr(a) == [t |-> "arr", a |-> a]
NaN == [t |-> "nan"]
Throw(error) == [t |-> "throw", error |-> error]
Diverges == [t |-> "diverges"]
Abrupt(v) == v.t \in {"throw", "diverges"}
EmptyRecord == Record(<< >>, NoProperties)
Range(seq) == {seq[i] : i \in 1..Len(seq)}

\* data[key] = value
Put(data, key, value) ==
    Record(IF key \in Range(data.keys) THEN data.keys ELSE Append(data.keys, key),
           [k \in (DOMAIN data.f) \cup {key} |-> IF k = key THEN value ELSE data.f[k]])

\* A property of a parsing structure: a PropertyConfig with a type and a
\* position, a PropertyConfig that is a copy, a nested structure or an array.
\* nullables = {} and transform = << >> stand for a config without them,
\* dependsOn = "" for one without a dependency. The structure of an array of
\* configs is { value: config }, as the parser builds it.
Property(key, kind) ==
    [key |-> key, kind |-> kind, type |-> "", position |-> 0, copyof |-> "",
     nullables |-> {}, transform |-> << >>, dependsOn |-> "",
     struct |-> << >>, element |-> "", length |-> 0, entryGap |-> 0]
FieldConfig(key, type, position, nullables, transform, dependsOn) ==
    [Property(key, "field") EXCEPT !.type = type, !.position = position,
        !.nullables = nullables, !.transform = transform, !.dependsOn = dependsOn]
CopyConfig(key, copyof, nullables, transform, dependsOn) ==
    [Property(key, "copy") EXCEPT !.copyof = copyof,
        !.nullables = nullables, !.transform = transform, !.dependsOn = dependsOn]
NestedStructure(key, struct) == [Property(key, "object") EXCEPT !.struct = struct]
ArrayOfConfigs(key, config, length, entryGap) ==
    [Property(key, "array") EXCEPT !.struct = <<[config EXCEPT !.key = "value"]>>,
        !.element = "config", !.length = length, !.entryGap = entryGap]
ArrayOfStructures(key, struct, length, entryGap) ==
    [Property(key, "array") EXCEPT !.struct = struct,
        !.element = "struct", !.length = length, !.entryGap = entryGap]

\* struct[propertyKey]
Entry(struct, propertyKey) ==
    struct[CHOOSE i \in 1..Len(struct) : struct[i].key = propertyKey]

byteLength(type) == IF type \in {"UINT8", "INT8"} THEN 1 ELSE 2

\* two's complement of an unsigned value of the given number of bits
Signed(v, bits) == IF v >= 2 ^ (bits - 1) THEN v - 2 ^ bits ELSE v
readUInt16LE(buffer, offset) == buffer[offset + 1] + 256 * buffer[offset + 2]

\* read(buffer, type, position) with this.offset = offset; the read methods
\* of Buffer throw a RangeError for a position outside the buffer
read(buffer, offset, type, position) ==
    LET at == position + offset
    IN  IF at < 0 \/ at + byteLength(type) > Len(buffer) THEN Throw("RangeError")
        ELSE Num(CASE type = "UINT8" -> readUInt8(buffer, at)
                   [] type = "INT8" -> Signed(readUInt8(buffer, at), 8)
                   [] type = "UINT16_LE" -> readUInt16LE(buffer, at)
                   [] type = "UINT16_BE" -> readUInt16BE(buffer, at)
                   [] type = "INT16_LE" -> Signed(readUInt16LE(buffer, at), 16))

\* a masking that knows only the first (smallest) sentinel
nullFirstNullable(value, nullables) ==
    IF value = Null THEN Null
    ELSE IF value.t = "num" /\ nullables # {}
            /\ value.n = CHOOSE n \in nullables : \A m \in nullables : n <= m
         THEN Null
         ELSE value

nullNullables(value, nullables) ==
    IF value = Null THEN Null
    ELSE IF value.t = "num" /\ value.n \in nullables THEN Null
    ELSE value

\* the transformers of the structures: (val) => val * 2 and (val) => val - 1,
\* which make NaN of what is not a number, and one that throws
transformer(name, val) ==
    IF name = "fail" THEN Throw("TransformError")
    ELSE IF val.t # "num" THEN NaN
    ELSE IF name = "double" THEN Num(val.n * 2)
    ELSE Num(val.n - 1)

\* a pipeline that runs its transformers from the last to the first
RECURSIVE transformedBackwards(_, _)
transformedBackwards(transform, resolvedValue) ==
    IF transform = << >> \/ Abrupt(resolvedValue) THEN resolvedValue
    ELSE transformedBackwards(SubSeq(transform, 1, Len(transform) - 1),
                              transformer(transform[Len(transform)], resolvedValue))

\* lines 149-151: for (const transformer of propertyConfig.transform)
RECURSIVE transformed(_, _)
transformed(transform, resolvedValue) ==
    IF transform = << >> \/ Abrupt(resolvedValue) THEN resolvedValue
    ELSE transformed(Tail(transform), transformer(Head(transform), resolvedValue))

\* lines 140-158: null the nullables, transform, wrap what depends on a property
Processed(propertyConfig, resolvedValue) ==
    LET masked == IF propertyConfig.nullables # {} /\ resolvedValue # Null
                  THEN nullNullables(resolvedValue, propertyConfig.nullables)
                  ELSE resolvedValue
        value == IF propertyConfig.transform # << >> /\ masked # Null
                 THEN transformed(propertyConfig.transform, masked)
                 ELSE masked
    IN  IF propertyConfig.dependsOn # "" /\ value # Null /\ ~Abrupt(value)
        THEN Dep(value, propertyConfig.dependsOn)
        ELSE value

\* lines 128-133: the position of a property of the entry arrayIndex of an array
Position(propertyConfig, arrayIndex, entryGap) ==
    IF arrayIndex # 0 /\ entryGap # 0 THEN propertyConfig.position + entryGap * arrayIndex
    ELSE IF arrayIndex # 0
         THEN propertyConfig.position + byteLength(propertyConfig.type) * arrayIndex
         ELSE propertyConfig.position

\* a copy that adopts the value of the first property parsed
AdoptedFirst(result, propertyConfig) == result.f[result.keys[1]]

\* line 126: resolvedValue = result[propertyConfig.copyof]
Adopted(result, propertyConfig) == result.f[propertyConfig.copyof]

RECURSIVE resolveDependencies(_)
RECURSIVE resolveProperties(_, _)
RECURSIVE resolveEntries(_, _)

\* lines 229-232: value[i] = this.resolveDependencies(value[i])
resolveEntries(value, i) ==
    IF i > Len(value.a) THEN value
    ELSE LET entry == resolveDependencies(value.a[i])
         IN  IF Abrupt(entry) THEN entry
             ELSE resolveEntries(Arr([value.a EXCEPT ![i] = entry]), i + 1)

\* lines 212-237: the loop over the keys, which writes data[key] as it goes
resolveProperties(data, i) ==
    IF i > Len(data.keys) THEN data
    ELSE LET key == data.keys[i]
             value == data.f[key]
         IN  IF value.t = "dep"
             THEN IF value.dependsOn \notin Range(data.keys)
                  THEN Throw("Property is dependend on unknown property.")
                  ELSE LET dependency == data.f[value.dependsOn]
                           valueOfDependency ==
                               IF dependency.t = "dep" THEN dependency.value ELSE dependency
                       IN  resolveProperties(
                               Put(data, key, IF valueOfDependency = Null THEN Null
                                              ELSE value.value), i + 1)
             ELSE LET resolved == IF value.t = "arr" THEN resolveEntries(value, 1)
                                  ELSE IF value.t = "rec" THEN resolveDependencies(value)
                                  ELSE value
                  IN  IF Abrupt(resolved) THEN resolved
                      ELSE resolveProperties(Put(data, key, resolved), i + 1)

resolveDependencies(data) ==
    IF data.t # "rec" THEN data     \* null is returned, a number has no keys
    ELSE resolveProperties(data, 1)

RECURSIVE parseRecursivly(_, _, _, _)
RECURSIVE parseProperties(_, _, _, _, _, _, _)
RECURSIVE parseEntries(_, _, _, _)

\* lines 164-185: the entries of an array, each parsed with its index and
\* the gap of the array
parseEntries(this, property, a, resolvedValue) ==
    IF a >= property.length THEN Arr(resolvedValue)
    ELSE LET parsedEntry == parseRecursivly(this, property.struct, a, property.entryGap)
         IN  IF Abrupt(parsedEntry) THEN parsedEntry
             ELSE parseEntries(this, property, a + 1,
                     Append(resolvedValue, IF property.element = "config"
                                           THEN parsedEntry.f["value"]
                                           ELSE parsedEntry))

\* lines 109-196: the loop over propertyKeys from index i on. A copy whose
\* source has no value yet is pushed to the end of propertyKeys. With n
\* properties at most n visits assign a value and at most n visits in a row
\* push one, so a loop that visits more than n * (n + 1) keys never ends.
parseProperties(this, struct, propertyKeys, i, result, arrayIndex, entryGap) ==
    IF i > Len(propertyKeys) THEN result
    ELSE IF i > Len(struct) * (Len(struct) + 1) THEN Diverges
    ELSE
    LET propertyKey == propertyKeys[i]
        propertyValue == Entry(struct, propertyKey)
        unknown == propertyValue.kind = "copy"
                    /\ propertyValue.copyof \notin Range(propertyKeys)
        pushed == propertyValue.kind = "copy" /\ ~unknown
                    /\ propertyValue.copyof \notin DOMAIN result.f
        raw == read(this.buffer, this.offset, propertyValue.type,
                    Position(propertyValue, arrayIndex, entryGap))
        resolvedValue ==
            CASE propertyValue.kind = "copy" ->
                    Processed(propertyValue, Adopted(result, propertyValue))
              [] propertyValue.kind = "field" ->
                    IF Abrupt(raw) THEN raw ELSE Processed(propertyValue, raw)
              [] propertyValue.kind = "array" ->
                    parseEntries(this, propertyValue, 0, << >>)
              [] propertyValue.kind = "object" ->
                    parseRecursivly(this, propertyValue.struct, arrayIndex, 0)
    IN  IF unknown THEN Throw("Property is copy of an unknown property.")
        ELSE IF pushed
             THEN parseProperties(this, struct, Append(propertyKeys, propertyKey), i + 1,
                                  result, arrayIndex, entryGap)
        ELSE IF Abrupt(resolvedValue) THEN resolvedValue
        ELSE parseProperties(this, struct, propertyKeys, i + 1,
                             Put(result, propertyKey, resolvedValue), arrayIndex, entryGap)

parseRecursivly(this, struct, arrayIndex, entryGap) ==
    LET result == parseProperties(this, struct, [i \in 1..Len(struct) |-> struct[i].key],
                                  1, EmptyRecord, arrayIndex, entryGap)
    IN  IF Abrupt(result) THEN result ELSE resolveDependencies(result)

\* a catch that lets the RangeError of a read through
CaughtButRangeError(result) ==
    IF result.t = "throw" /\ result.error # "RangeError" THEN Throw("ParserError")
    ELSE result

\* lines 72-77: catch (err) { throw new ParserError(...) }
Caught(result) == IF result.t = "throw" THEN Throw("ParserError") ELSE result

\* what parse returns or throws for a buffer with this.offset = offset
Parsed(struct, buffer, offset) ==
    Caught(parseRecursivly([buffer |-> buffer, offset |-> offset], struct, 0, 0))

\* an offset that is added to the offset of the call before
thisOffsetAdded(this, offset) == this.offset + offset

\* line 70: this.offset = offset
thisOffset(this, offset) == offset

\* The structures parsed: one config for each of the properties a, b and c,
\* in every order of declaration, and arrays of configs and of structures.
ConfigsOfA ==
    {FieldConfig("a", "UINT8", 0, {255}, << >>, "b"),
     FieldConfig("a", "UINT8", 0, {}, <<"double">>, ""),
     CopyConfig("a", "b", {1}, <<"dec">>, ""),
     CopyConfig("a", "b", {}, << >>, ""),
     FieldConfig("a", "UINT8", 0, {255}, << >>, "z"),
     CopyConfig("a", "z", {}, << >>, ""),
     CopyConfig("a", "a", {}, << >>, "")}
ConfigsOfB ==
    {FieldConfig("b", "UINT8", 1, {255}, << >>, "c"),
     FieldConfig("b", "UINT16_LE", 1, {257}, <<"double", "dec">>, ""),
     FieldConfig("b", "INT8", 1, {-1, 1}, << >>, ""),
     FieldConfig("b", "UINT8", 1, {1}, <<"double">>, "c"),
     CopyConfig("b", "a", {}, << >>, "")}
ConfigsOfC ==
    {FieldConfig("c", "UINT8", 2, {255}, << >>, ""),
     FieldConfig("c", "UINT8", 2, {1, 255}, << >>, "a"),
     FieldConfig("c", "UINT16_BE", 2, {}, << >>, ""),
     FieldConfig("c", "UINT8", 2, {255}, <<"fail">>, "")}
Orders == {o \in [1..3 -> 1..3] : \A i, j \in 1..3 : o[i] = o[j] => i = j}
Element(type, position) ==
    <<FieldConfig("x", type, position, {}, << >>, ""),
      NestedStructure("nested", <<FieldConfig("y", "UINT8", position + 1, {}, << >>, "")>>)>>
Structures ==
    {[i \in 1..3 |-> <<a, b, c>>[o[i]]] :
        a \in ConfigsOfA, b \in ConfigsOfB, c \in ConfigsOfC, o \in Orders}
    \cup {<<ArrayOfConfigs("entries", FieldConfig("value", type, position, {}, << >>, ""),
                           length, entryGap)>> :
            type \in {"UINT8", "UINT16_LE"}, position \in 0..1, length \in 2..3,
            entryGap \in {0, 2, 3}}
    \cup {<<ArrayOfStructures("entries", Element(type, position), length, entryGap)>> :
            type \in {"UINT8", "UINT16_LE"}, position \in 0..1, length \in 2..3,
            entryGap \in {0, 2, 3}}
ParsedBuffers == [1..4 -> {1, 255}] \cup {<<10, 20, 30, 40, 50, 60, 70, 80>>}
Offsets == 0..1

\* lines 68-78: this.offset = offset, then the structure is parsed
Call_parse(buffer, offset) ==
    LET result == Parsed(parser.struct, buffer, thisOffset(parser, offset))
    IN  parser' = [parser EXCEPT
            !.pc = IF result.t = "throw" THEN "thrown"
                   ELSE IF result.t = "diverges" THEN "parsing"
                   ELSE "returned",
            !.buffer = buffer, !.given = offset,
            !.offset = thisOffset(parser, offset),
            !.calls = @ + 1, !.result = result]

\* parse(buffer, offset) of a parser that has not parsed yet
parse(buffer, offset) ==
    /\ parser.pc = "constructed"
    /\ Call_parse(buffer, offset)
    /\ UNCHANGED <<containerVars, interfaceVars, rich>>

\* parse(buffer, offset) of a parser whose last call returned or threw
parseAgain(buffer, offset) ==
    /\ parser.pc \in {"returned", "thrown"}
    /\ parser.calls < MaxParses
    /\ Call_parse(buffer, offset)
    /\ UNCHANGED <<containerVars, interfaceVars, rich>>

ParserInit ==
    /\ ProgramInit /\ onCreate = WaitForFirstUpdate
    /\ rich = NoRich
    /\ parser \in {[NoParser EXCEPT !.pc = "constructed", !.struct = struct] :
                      struct \in Structures}

ParserNext == \E buffer \in ParsedBuffers, offset \in Offsets : parse(buffer, offset)

ParserSpec == ParserInit /\ [][ParserNext]_vars

\* One parser that parses several buffers: the structures with a, b and c
\* declared in this order, b of two bytes, and the arrays of two entries.
FewStructures ==
    {struct \in Structures :
        \/ Len(struct) = 3 /\ struct[1].key = "a" /\ struct[2].type = "UINT16_LE"
             /\ struct[3] = FieldConfig("c", "UINT8", 2, {255}, << >>, "")
        \/ Len(struct) = 1 /\ struct[1].length = 2 /\ struct[1].struct[1].type = "UINT8"}

ReparseInit ==
    /\ ProgramInit /\ onCreate = WaitForFirstUpdate
    /\ rich = NoRich
    /\ parser \in {[NoParser EXCEPT !.pc = "constructed", !.struct = struct] :
                      struct \in FewStructures}

ReparseNext ==
    \E buffer \in ParsedBuffers, offset \in Offsets :
        parse(buffer, offset) \/ parseAgain(buffer, offset)

ReparseSpec == ReparseInit /\ [][ReparseNext]_vars

\* the properties of the structure parsed, its keys, and what is read at the
\* declared position of a config
Properties == Range(parser.struct)
Keys == {p.key : p \in Properties}
RawAt(type, position) == read(parser.buffer, parser.offset, type, position)
Raw(p) == RawAt(p.type, p.position)
\* the masking and the transforms of a config, applied to a value
Pipeline(p, v) ==
    IF v = Null \/ (v.t = "num" /\ v.n \in p.nullables) THEN Null
    ELSE transformed(p.transform, v)

\* C26: a field with nullables, without transform and dependsOn, is parsed to
\* null if the value read is one of its nullables and to the value read if not.
C26_NullableMasking ==
    parser.pc = "returned" =>
        \A p \in Properties :
            (p.kind = "field" /\ p.nullables # {} /\ p.transform = << >> /\ p.dependsOn = "")
                => parser.result.f[p.key] =
                        IF Raw(p).n \in p.nullables THEN Null ELSE Raw(p)

C26_Witness ==
    /\ parser.pc = "returned"
    /\ \E p, q \in Properties :
          /\ p.kind = "field" /\ p.nullables # {} /\ p.transform = << >> /\ p.dependsOn = ""
          /\ q.kind = "field" /\ q.nullables # {} /\ q.transform = << >> /\ q.dependsOn = ""
          /\ Raw(p).n \in p.nullables /\ parser.result.f[p.key] = Null
          /\ Raw(q).n \notin q.nullables /\ parser.result.f[q.key] = Raw(q)

\* C27: a field that depends on a property of its level is null whenever the
\* parsed value of that property is null, in every order of declaration and
\* also when that property depends on a third.
C27_DependsOnNull ==
    parser.pc = "returned" =>
        \A p \in Properties :
            (p.kind = "field" /\ p.dependsOn \in Keys
                /\ parser.result.f[p.dependsOn] = Null)
                => parser.result.f[p.key] = Null

\* C28 as the specification states it: a copy runs its masking and its
\* transforms on the value read for its source.
C28_CopyOfRaw ==
    parser.pc = "returned" =>
        \A p, q \in Properties :
            (p.kind = "copy" /\ p.dependsOn = "" /\ q.key = p.copyof /\ q.kind = "field")
                => parser.result.f[p.key] = Pipeline(p, Raw(q))

\* C28 amended: a copy runs its masking and its transforms on the value its
\* source has in the result, which is the value read after the masking, the
\* transforms and the wrapping of the source. A wrapped source is no number:
\* the transforms of the copy make NaN of it, and a copy without transforms
\* becomes a dependent of the same property itself.
C28_CopyOfParsed ==
    parser.pc = "returned" =>
        \A p, q \in Properties :
            (p.kind = "copy" /\ p.dependsOn = "" /\ q.key = p.copyof /\ q.kind = "field")
                => LET v == Pipeline(q, Raw(q))
                       copy == parser.result.f[p.key]
                   IN  IF q.dependsOn = "" \/ v = Null THEN copy = Pipeline(p, v)
                       ELSE IF p.transform # << >> THEN copy = NaN
                       ELSE copy \in {v, Null}

C28_Witness ==
    /\ parser.pc = "returned"
    /\ \E p, q \in Properties :
          /\ p.kind = "copy" /\ q.key = p.copyof /\ q.kind = "field"
          /\ q.transform # << >> /\ p.transform # << >> /\ q.dependsOn = ""
          /\ Pipeline(q, Raw(q)) # Null
          /\ parser.result.f[p.key] = Pipeline(p, Pipeline(q, Raw(q)))
          /\ parser.result.f[p.key] # Pipeline(p, Raw(q))

\* C29: the entry i of an array of configs without a gap is read at the
\* position of the config plus i times the size of its type; with a gap S
\* every field of the entry i, also one in a nested structure of the entry,
\* is read at its position plus S times i.
C29_ArrayPositions ==
    parser.pc = "returned" =>
        \A p \in Properties : p.kind = "array" =>
            \A i \in 0..(p.length - 1) :
                LET entry == parser.result.f[p.key].a[i + 1]
                    advance(q) == IF p.entryGap = 0 THEN byteLength(q.type) * i
                                  ELSE p.entryGap * i
                IN  /\ p.element = "config" =>
                          entry = RawAt(p.struct[1].type,
                                        p.struct[1].position + advance(p.struct[1]))
                    /\ (p.element = "struct" /\ p.entryGap # 0) =>
                          \A q \in Range(p.struct) :
                             /\ q.kind = "field" =>
                                   entry.f[q.key] = RawAt(q.type, q.position + advance(q))
                             /\ q.kind = "object" =>
                                   \A r \in Range(q.struct) :
                                       entry.f[q.key].f[r.key] =
                                           RawAt(r.type, r.position + advance(r))

\* C30: parse throws for every structure in which a copyof or a dependsOn
\* names a property its level does not have, whatever the buffer.
C30_UnknownProperty ==
    (/\ parser.pc # "constructed"
     /\ \E p \in Properties :
           \/ p.kind = "copy" /\ p.copyof \notin Keys
           \/ p.kind \in {"field", "copy"} /\ p.dependsOn # "" /\ p.dependsOn \notin Keys)
        => parser.pc = "thrown"

\* C31: whatever a parser parsed before, parse(buffer, offset) returns or
\* throws what a new parser of the same structure does for this buffer and
\* offset, and the structure of the parser stays as it was constructed.
C31_Repeatable ==
    /\ [](parser.pc \in {"returned", "thrown"}
            => parser.result = Parsed(parser.struct, parser.buffer, parser.given))
    /\ [][parser.pc # "idle" => parser'.struct = parser.struct]_vars

C31_Witness ==
    /\ parser.calls = 2 /\ parser.pc = "returned"
    /\ parser.given = 0
    /\ \E p \in Range(parser.struct) : p.kind = "field" /\ p.type = "UINT16_LE"

\* C32: parse ends, returning or throwing, for every structure in which every
\* copyof names a property of its level.
C32_CopyTerminates ==
    (/\ parser.pc # "constructed"
     /\ \A p \in Properties : p.kind = "copy" => p.copyof \in Keys)
        => parser.pc \in {"returned", "thrown"}

\* a read of a field of the structure beyond the end of the buffer
PastEnd(p) ==
    p.kind = "field"
        /\ p.position + parser.offset + byteLength(p.type) > Len(parser.buffer)

\* C33: what parse throws is a ParserError and what it returns is a record
\* with every property of the structure; a read past the end of the buffer,
\* a copyof of an unknown property, a transformer that throws and a wrapped
\* value that depends on an unknown property make parse throw.
C33_OnlyParserError ==
    parser.pc # "constructed" =>
        /\ parser.pc = "thrown" => parser.result = Throw("ParserError")
        /\ parser.pc = "returned" =>
              parser.result.t = "rec" /\ DOMAIN parser.result.f = Keys
        /\ (\E p \in Properties : PastEnd(p)) => parser.pc = "thrown"
        /\ (\E p \in Properties : p.kind = "copy" /\ p.copyof \notin Keys)
              => parser.pc = "thrown"
        /\ (\E p \in Properties :
                /\ p.kind = "field" /\ ~PastEnd(p) /\ "fail" \in Range(p.transform)
                /\ Raw(p).n \notin p.nullables)
              => parser.pc = "thrown"
        /\ (\E p \in Properties :
                /\ p.kind = "field" /\ ~PastEnd(p) /\ p.dependsOn # ""
                /\ p.dependsOn \notin Keys /\ Raw(p).n \notin p.nullables
                /\ parser.pc # "parsing")
              => parser.pc = "thrown"

C33_Witness ==
    /\ parser.pc = "thrown" /\ parser.result = Throw("ParserError")
    /\ \E p \in Properties : PastEnd(p)
    /\ \A p \in Properties :
          p.kind = "field" /\ p.dependsOn = "" /\ "fail" \notin Range(p.transform)

\* the transformers of a pipeline applied to a number, the first one first
RECURSIVE InOrder(_, _)
InOrder(transform, n) ==
    IF transform = << >> THEN Num(n)
    ELSE InOrder(Tail(transform), IF Head(transform) = "double" THEN n * 2 ELSE n - 1)

\* C34: a field with a transform pipeline is null if the value read is one of
\* its nullables, and no transformer is called then; if not, it is the value
\* read with the transformers applied in the order of the pipeline.
C34_TransformOrder ==
    parser.pc = "returned" =>
        \A p \in Properties :
            (p.kind = "field" /\ p.transform # << >> /\ p.dependsOn = "")
                => parser.result.f[p.key] =
                        IF Raw(p).n \in p.nullables THEN Null
                        ELSE InOrder(p.transform, Raw(p).n)

C34_Witness ==
    /\ parser.pc = "returned"
    /\ \E p, q \in Properties :
          /\ p.kind = "field" /\ p.transform = <<"double", "dec">>
          /\ Raw(p).n \notin p.nullables
          /\ parser.result.f[p.key] = Num(Raw(p).n * 2 - 1)
          /\ q.kind = "field" /\ q.transform = <<"fail">>
          /\ Raw(q).n \in q.nullables /\ parser.result.f[q.key] = Null

\* C35: a cycle that has ended has emitted exactly one update event.
C35_OneUpdatePerCycle == \A c \in Cycles : cyc[c].pc = "done" => cyc[c].upd = 1

\* C37: from the completion of a close() call until the next open() call no
\* update and no valid-update event is emitted.
C37_SilentAfterClose ==
    idle => ~HasEvent(emitted, "update") /\ ~HasEvent(emitted, "valid-update")

\* C38: a pending waitForUpdate() or waitForValidUpdate() promise resolves exactly
\* at the first event of its kind emitted after the call, with the error argument of
\* that event; a resolved promise never changes, and no update(err) resolves a
\* waitForValidUpdate() promise.
C38_WaitResolvesAtFirstEvent ==
    [][\A w \in Waits :
          /\ waits[w].st = "resolved" => waits'[w] = waits[w]
          /\ waits[w].st = "pending" =>
                LET first == {i \in DOMAIN emitted' :
                                 /\ emitted'[i].ev = waits[w].kind
                                 /\ \A j \in 1..(i - 1) : emitted'[j].ev # waits[w].kind}
                IN  IF first = {}
                    THEN waits'[w] = waits[w]
                    ELSE \E i \in first :
                            waits'[w] = [waits[w] EXCEPT !.st = "resolved",
                                                         !.val = emitted'[i].err]]_vars

\* the answer o of a fetch was received whole and passed every check of the fetch
Validated(o, kind) ==
    /\ o # << >>
    /\ o.kind = kind
    /\ o.settled = "resolved"
    /\ Len(o.chunks) = (IF kind = "LPS1" THEN 1 ELSE 2)
    /\ validateAcknowledgementByte(o.chunks[1])
    /\ validateCRC(o.crcOver, o.crcWith)
    /\ o.parsed = o.crcOver

\* C36: getRichRealtimeData() sends the LOOP1 command first and the LOOP2 command
\* only once the LOOP1 response was received whole and validated; when LOOP1
\* fails no LOOP2 command is sent; when a fetch fails the call fails with the error
\* of that fetch and makes no record; a record is made of two validated answers.
C36_Loop1ThenLoop2 ==
    /\ rich.pc = "loop1" => op[1].kind = "LPS1"
    /\ op[1].kind = "LPS2" => Validated(rich.loop1, "LPS1")
    /\ rich.pc = "rejected" =>
          /\ rich.record = << >>
          /\ IF rich.loop1 = << >> THEN rich.err = "ClosedConnection" /\ op[1].kind = "none"
             ELSE IF rich.loop1.settled = "rejected"
                  THEN rich.err = rich.loop1.err /\ op[1].kind = "LPS1"
                  ELSE /\ rich.loop2 # << >>
                       /\ rich.loop2.settled = "rejected"
                       /\ rich.err = rich.loop2.err
    /\ rich.pc = "resolved" =>
          /\ Validated(rich.loop1, "LPS1")
          /\ Validated(rich.loop2, "LPS2")
          /\ rich.record = <<rich.loop1.parsed, rich.loop2.parsed>>

\* LOOP1 was fetched and validated, the LOOP2 answer failed its CRC check: the
\* call is rejected with MalformedData and there is no record
C36_Witness ==
    /\ rich.pc = "rejected"
    /\ Validated(rich.loop1, "LPS1")
    /\ rich.loop2 # << >>
    /\ rich.loop2.kind = "LPS2"
    /\ Len(rich.loop2.chunks) = 2
    /\ rich.err = "MalformedData"
    /\ rich.record = << >>

====
